---- MODULE Spec2Model ----
(***************************************************************************)
(* A model of dbt_doc_py.py: the selection of the nodes to document, the   *)
(* concurrent completion requests (asyncio.gather over open_ai_summarize,  *)
(* run_openai_request and gen_column_summaries), the token budget, and the *)
(* merge of the results into the declaration files and Markdown sidecars.  *)
(***************************************************************************)
EXTENDS Integers, Sequences, FiniteSets, TLC

VARIABLES
    manifest,          \* node id -> NodeMetadata (patch_path is assigned at line 718)
    env,               \* Env: models (Optional set of names), dry_run
    selected,          \* answers['models']: the node ids the user ticked
    userInput,         \* what the user types at the "generate the missing .yml" prompt
    promptTokens,      \* len(tokenizer.encode(prompt)) of every prompt of the run
    phase,             \* where main is: "init", "gather", "aborted", "merged"
    exc,               \* the exception that left main, "none" while there is none
    nodes_to_process,  \* line 713
    nodeTask,          \* state of each open_ai_summarize task
    requests,          \* how many times open_ai_summarize was entered for a node
    req,               \* state of each run_openai_request call
    posted,            \* requests that reached client.post
    colGather,         \* the gather future of gen_column_summaries (line 293)
    genCol,            \* the gen_column_summaries task as seen by line 304
    nodeGather,        \* the gather future of open_ai_summarize (line 304)
    results,           \* what each open_ai_summarize returned
    delivered,         \* the child tasks whose done-callback a gather has run
    batch,             \* the gather future of main (line 720)
    completed,         \* the node tasks that have ended, in the order they ended
    ready,             \* the event loop's queue of ready callbacks, oldest first
    errors,            \* backend failures injected so far
    files,             \* declaration files on disk: path -> content
    sidecars,          \* Markdown sidecar files on disk: set of [path, content]
    printedDocs,       \* doc_content printed instead of written (dry run)
    printedYaml,       \* yaml_output printed instead of written (dry run)
    insertCalls,       \* the insert_docs calls of line 724, in order
    revNodes,          \* mk_reverse_dependency_map: its argument, as (id, depends_on) pairs
    revAns,            \* mk_reverse_dependency_map: what it returned, <<>> before the call
    mergeEnv,          \* insert_docs on its own: env
    mergeNodes,        \* insert_docs on its own: the results it is given
    mergeBefore,       \* insert_docs on its own: disk and console before the call
    mergeAfter,        \* insert_docs on its own: disk and console after it, <<>> before
    promptArgs,        \* mk_column_prompt on its own: <<>>, or its arguments in a tuple
    promptAns          \* mk_column_prompt on its own: what it returned or raised

vars == <<manifest, env, selected, userInput, promptTokens, phase, exc,
          nodes_to_process, nodeTask, requests, req, posted, colGather, genCol,
          nodeGather, delivered, batch, completed, ready, results, errors, files,
          sidecars, printedDocs, printedYaml, insertCalls, revNodes, revAns,
          mergeEnv, mergeNodes, mergeBefore, mergeAfter, promptArgs, promptAns>>

\* the state of the run of main
runVars == <<manifest, env, selected, userInput, promptTokens, phase, exc,
             nodes_to_process, nodeTask, requests, req, posted, colGather,
             genCol, nodeGather, delivered, batch, completed, ready, results,
             errors, files, sidecars, printedDocs, printedYaml, insertCalls>>

\* the state of the functions that are also run on their own
unitVars == <<revNodes, revAns, mergeEnv, mergeNodes, mergeBefore, mergeAfter,
              promptArgs, promptAns>>

inputVars == <<env, selected, userInput, promptTokens>>

(***************************************************************************)
(* Bounds of the model.                                                    *)
(***************************************************************************)
\* how many requests the backend may fail in one run
MaxErrors == 2

(***************************************************************************)
(* Constants of the program.                                               *)
(***************************************************************************)
\* max_tokens of the request, and the summand of the budget check
ReservedTokens == 1000
\* the context window of the budget check
ContextWindow == 4096

\* Optional[str] that is None
NoneStr == "<None>"
\* Optional[set] that is None; Some(s) is <<s>>
NoneSet == <<>>

(***************************************************************************)
(* Identifiers are sequences of chunks; "." is the separator chunk.        *)
(***************************************************************************)
Dot == "."
IdA == <<"model", Dot, "a">>
IdB == <<"model", Dot, "b">>
IdS == <<"source", Dot, "s">>
NodeIds == {IdA, IdB, IdS}
\* iteration order of manifest.nodes (a dict keeps insertion order)
NodeOrder == <<IdA, IdB, IdS>>

\* name.split('.')[0]
SplitHead(name) ==
    LET dots == {i \in 1..Len(name) : name[i] = Dot}
        first == IF dots = {} THEN Len(name) + 1
                 ELSE CHOOSE i \in dots : \A j \in dots : i <= j
    IN SubSeq(name, 1, first - 1)

is_model_anykind(name) == TRUE

is_model(name) == SplitHead(name) = <<"model">>

(***************************************************************************)
(* Paths.  base_path is the default "./", project_name is "proj".          *)
(***************************************************************************)
Patch1 == "proj://models/schema1.yml"
Patch2 == "proj://models/schema2.yml"
File1 == "./models/schema1.yml"
File2 == "./models/schema2.yml"

\* os.path.join(base_path, dirname(original_file_path), name + ".yml")
GenYamlPath(name) == "./models/" \o name \o ".yml"

\* os.path.join(env.base_path, patch_path.replace("proj://", "")), as the
\* file it names ("././models/x.yml" names "./models/x.yml")
ResolvePath(patch) ==
    CASE patch = Patch1 -> File1
      [] patch = Patch2 -> File2
      [] OTHER -> patch

\* the patch paths of a run, in the order of Python's string comparison
PatchOrder ==
    <<GenYamlPath("a"), GenYamlPath("b"), GenYamlPath("s"), Patch1, Patch2>>

PatchRank(p) == CHOOSE i \in 1..Len(PatchOrder) : PatchOrder[i] = p

FilePaths == {File1, File2, GenYamlPath("a"), GenYamlPath("b"), GenYamlPath("s")}

\* str.lower() on the answers the model draws
Lower(s) == CASE s = "Y" -> "y" [] s = "N" -> "n" [] OTHER -> s

(***************************************************************************)
(* The metadata artifact (manifest.json) and the declaration files.        *)
(***************************************************************************)
\* the pseudo column of a node's table-level prompt
TBL == "<table>"

\* node.columns of the three nodes: column name -> description
ColumnsA == ("c1" :> "" @@ "c2" :> "documented c2")
NoColumns == <<>>

\* the order of a node's columns in the declaration file and the catalog
ColumnOrder(columns) ==
    IF DOMAIN columns = {} THEN <<>> ELSE <<"c1", "c2">>

NodeMetadata(name, description, patch_path, columns) ==
    [name |-> name, description |-> description, patch_path |-> patch_path,
     columns |-> columns]

\* the manifests the model draws: model.a documented or not, declared or not;
\* model.b undocumented, declared in either file; source.s undocumented
ManifestChoices ==
    {(IdA :> NodeMetadata("a", da, pa, ColumnsA)
      @@ IdB :> NodeMetadata("b", "", pb, NoColumns)
      @@ IdS :> NodeMetadata("s", "", Patch2, NoColumns)) :
        da \in {"", "documented a"}, pa \in {NoneStr, Patch1},
        pb \in {Patch1, Patch2}}

\* every prompt a run can build: the table prompt and the column prompts
AllRequests ==
    {<<n, TBL>> : n \in NodeIds} \cup {<<IdA, c>> : c \in DOMAIN ColumnsA}

\* token counts around the budget's edge
TokenChoices == {3095, 3096}

\* the prompts whose token count the model varies
VariedRequests == {<<IdA, TBL>>, <<IdA, "c1">>, <<IdB, TBL>>}

ModelsChoices == {NoneSet, <<{"a"}>>, <<{"a", "b", "s"}>>}

\* a declaration file: other top-level keys, and the "models" sequence
NoFile == [exists |-> FALSE, top |-> NoneStr, models |-> <<>>]

ColumnEntry(name, description, extra) ==
    [name |-> name, description |-> description, extra |-> extra]

ModelEntry(name, description, extra, columns) ==
    [name |-> name, description |-> description, extra |-> extra,
     columns |-> columns]

\* the entry a declaration file holds for a node of the manifest
DeclaredEntry(node) ==
    LET order == ColumnOrder(node.columns)
    IN ModelEntry(node.name, node.description, "meta of " \o node.name,
           [i \in 1..Len(order) |->
               ColumnEntry(order[i], node.columns[order[i]],
                           "tests of " \o order[i])])

\* the declaration files the manifest was compiled from
DeclaredFiles(mf) ==
    [p \in FilePaths |->
        LET here == SelectSeq(NodeOrder,
                        LAMBDA n : mf[n].patch_path # NoneStr
                                   /\ ResolvePath(mf[n].patch_path) = p)
            \* only nodes of kind "model" are declared under "models"
            declared == SelectSeq(here, LAMBDA n : SplitHead(n) = <<"model">>)
        IN IF here = <<>> THEN NoFile
           ELSE [exists |-> TRUE, top |-> "version: 2",
                 models |-> [i \in 1..Len(declared) |->
                                DeclaredEntry(mf[declared[i]])]]]

(***************************************************************************)
(* Selection: should_write_doc and generateYaml.                           *)
(***************************************************************************)
pred_any(e, node) == TRUE

\* pred of should_write_doc
pred(e, node) ==
    IF e.models = NoneSet THEN node.description = ""
    ELSE node.name \in e.models[1]

\* cond of should_write_doc
cond(e, id, node) == is_model(id) /\ pred(e, node)

\* should_write_doc calls generateYaml
CallsGenerateYaml(e, id, node, input) ==
    node.patch_path = NoneStr /\ cond(e, id, node) /\ Lower(input) = "y"

should_write_doc(e, id, node, input) ==
    IF CallsGenerateYaml(e, id, node, input) THEN TRUE
    ELSE node.patch_path # NoneStr /\ cond(e, id, node)

\* the file generateYaml dumps: the columns come from catalog.json
generateYaml(node) ==
    LET order == ColumnOrder(node.columns)
    IN [exists |-> TRUE, top |-> "version: 2",
        models |-> <<ModelEntry(node.name, NoneStr, NoneStr,
                        [i \in 1..Len(order) |->
                            ColumnEntry(order[i], NoneStr, NoneStr)])>>]

\* line 713: the selected pairs that pass should_write_doc, in dict order
NodesToProcess(mf, e, sel, input) ==
    SelectSeq(NodeOrder,
        LAMBDA n : n \in sel /\ should_write_doc(e, n, mf[n], input))

\* the files after the should_write_doc calls of line 713
FilesAfterSelection(fs, mf, e, sel, input) ==
    [p \in FilePaths |->
        LET gen == {n \in sel : CallsGenerateYaml(e, n, mf[n], input)
                                /\ GenYamlPath(mf[n].name) = p}
        IN IF gen = {} THEN fs[p]
           ELSE generateYaml(mf[CHOOSE n \in gen : TRUE])]

\* lines 716-718: a generated file becomes the node's patch_path
AssignPatchPaths(mf, ntp) ==
    [n \in NodeIds |->
        IF (\E i \in 1..Len(ntp) : ntp[i] = n) /\ mf[n].patch_path = NoneStr
        THEN [mf[n] EXCEPT !.patch_path = GenYamlPath(mf[n].name)]
        ELSE mf[n]]

InSeq(x, s) == \E i \in 1..Len(s) : s[i] = x

(***************************************************************************)
(* The token budget and the completion requests.                           *)
(***************************************************************************)
TooManyTokens_strict(tokens) == tokens + ReservedTokens > ContextWindow

\* line 248: the check that raises TooManyTokensError
TooManyTokens(tokens) == tokens + ReservedTokens >= ContextWindow

FilteredColumns_all(node) == DOMAIN node.columns

\* line 291: the columns gen_column_summaries asks for
FilteredColumns(node) == {k \in DOMAIN node.columns : node.columns[k] = ""}

\* the text the backend answers a prompt with
Completion(n, k) == "completion for " \o manifest[n].name \o "/" \o k

SummaryPrefix ==
    "This description is generated by an AI model. Take it with a grain of salt!\n"

ColumnPrefix == "[ai-gen] "

\* line 308: the SummarizedResult of a node whose sub-requests all succeeded
SummarizedResult(n) ==
    LET node == manifest[n]
    IN [patch_path |-> node.patch_path, name |-> node.name,
        summary |-> SummaryPrefix \o Completion(n, TBL),
        column_summaries |->
            [k \in FilteredColumns(node) |-> ColumnPrefix \o Completion(n, k)]]

\* what a gather future becomes when a child ends: the first exception
\* wins, and a gather that is done ignores its other children
FirstException(future, outcome) == IF future = "running" THEN outcome ELSE future

(***************************************************************************)
(* The merge: insert_column_description, insert_description, insert_docs.  *)
(***************************************************************************)
DocName(name) == "tql_generated_doc__" \o name
ColumnDocName(name, column) == DocName(name) \o "__" \o column

\* f"{{{{ doc(\"{doc_name}\") }}}}"
DocRef(doc_name) == "{{ doc(\"" \o doc_name \o "\") }}"

\* os.path.join(base_path, dirname(original_file_path), doc_name + ".md")
MdPath(doc_name) == "./models/" \o doc_name \o ".md"

\* "\n".join([header, body, footer])
DocContent(doc_name, body) ==
    "{% docs " \o doc_name \o " %}\n" \o body \o "\n{% enddocs %}"

Sidecar(doc_name, body) ==
    [path |-> MdPath(doc_name), content |-> DocContent(doc_name, body)]

\* insert_column_description: the column entry it leaves
insert_column_description(node_result, col_map, col) ==
    IF col.name \notin DOMAIN col_map THEN col
    ELSE [col EXCEPT
             !.description = DocRef(ColumnDocName(node_result.name, col.name))]

\* insert_column_description: the sidecars it writes (or prints)
ColumnSidecars(node_result, col_map, columns) ==
    {Sidecar(ColumnDocName(node_result.name, columns[i].name),
             col_map[columns[i].name]) :
        i \in {j \in 1..Len(columns) : columns[j].name \in DOMAIN col_map}}

insert_description_dropping(node_map, model_obj) ==
    IF model_obj.name \notin DOMAIN node_map THEN model_obj
    ELSE ModelEntry(model_obj.name, DocRef(DocName(model_obj.name)), NoneStr,
                    model_obj.columns)

\* insert_description: the model entry it leaves
insert_description(node_map, model_obj) ==
    IF model_obj.name \notin DOMAIN node_map THEN model_obj
    ELSE LET node == node_map[model_obj.name]
         IN [model_obj EXCEPT
                !.columns = [i \in 1..Len(model_obj.columns) |->
                                insert_column_description(node,
                                    node.column_summaries, model_obj.columns[i])],
                !.description = DocRef(DocName(node.name))]

\* insert_description: the sidecars it writes (or prints)
DescriptionSidecars(node_map, model_obj) ==
    IF model_obj.name \notin DOMAIN node_map THEN {}
    ELSE LET node == node_map[model_obj.name]
         IN ColumnSidecars(node, node.column_summaries, model_obj.columns)
            \cup {Sidecar(DocName(node.name), node.summary)}

\* line 417: {n.name: n for n in nodes}, a later result replacing an earlier one
ResultMap(nodes) ==
    [nm \in {nodes[i].name : i \in 1..Len(nodes)} |->
        LET at == {i \in 1..Len(nodes) : nodes[i].name = nm}
        IN nodes[CHOOSE i \in at : \A j \in at : j <= i]]

\* lines 421-425: the "models" sequence after the loop
insert_docs_models(models_node, nodes) ==
    [i \in 1..Len(models_node) |->
        IF models_node[i].name \in DOMAIN ResultMap(nodes)
        THEN insert_description(ResultMap(nodes), models_node[i])
        ELSE models_node[i]]

\* the sidecars of one insert_docs call
InsertDocsSidecars(models_node, nodes) ==
    UNION {DescriptionSidecars(ResultMap(nodes), models_node[i]) :
              i \in 1..Len(models_node)}

\* open(path, "w").write(content) on the sidecar directory
WriteSidecars(on_disk, written) ==
    {f \in on_disk : \A w \in written : w.path # f.path} \cup written

\* the disk and the console: what the merge reads and changes
World(fs, sc, pd, py, ex, calls) ==
    [files |-> fs, sidecars |-> sc, printedDocs |-> pd, printedYaml |-> py,
     exc |-> ex, calls |-> calls]

\* insert_docs(env, patch_path_may, nodes)
insert_docs(w, e, patch_path_may, nodes) ==
    LET path == ResolvePath(patch_path_may)
        called == [w EXCEPT !.calls = Append(@,
                      [patch_path |-> patch_path_may,
                       names |-> [i \in 1..Len(nodes) |-> nodes[i].name]])]
    IN IF patch_path_may = NoneStr THEN called
       ELSE IF ~w.files[path].exists
       THEN [called EXCEPT !.exc = "FileNotFoundError"]
       ELSE LET config == [w.files[path] EXCEPT
                              !.models = insert_docs_models(@, nodes)]
                docs == InsertDocsSidecars(w.files[path].models, nodes)
            IN IF e.dry_run
               THEN [called EXCEPT
                        !.printedDocs = @ \cup docs,
                        !.printedYaml = @ \cup {[path |-> path, content |-> config]}]
               ELSE [called EXCEPT
                        !.sidecars = WriteSidecars(@, docs),
                        !.files[path] = config]

(***************************************************************************)
(* Line 723: sorted by patch_path (a stable sort), then itertools.groupby. *)
(***************************************************************************)
\* x put behind every element whose key is not larger
InsertByPatch(sorted, x) ==
    LET before == {i \in 1..Len(sorted) :
                      PatchRank(sorted[i].patch_path) <= PatchRank(x.patch_path)}
        k == Cardinality(before)
    IN SubSeq(sorted, 1, k) \o <<x>> \o SubSeq(sorted, k + 1, Len(sorted))

RECURSIVE SortedByPatch(_)
SortedByPatch(s) ==
    IF s = <<>> THEN <<>>
    ELSE InsertByPatch(SortedByPatch(SubSeq(s, 1, Len(s) - 1)), s[Len(s)])

\* the length of the run of equal keys that starts s
RunLength(s) ==
    LET same == {i \in 1..Len(s) :
                    \A j \in 1..i : s[j].patch_path = s[1].patch_path}
    IN Cardinality(same)

RECURSIVE GroupByPatch(_)
GroupByPatch(s) ==
    IF s = <<>> THEN <<>>
    ELSE <<[patch_path |-> s[1].patch_path, group |-> SubSeq(s, 1, RunLength(s))]>>
         \o GroupByPatch(SubSeq(s, RunLength(s) + 1, Len(s)))

\* lines 723-724: insert_docs for each group, until one raises
RECURSIVE MergeGroups(_, _, _)
MergeGroups(w, e, groups) ==
    IF groups = <<>> \/ w.exc # "none" THEN w
    ELSE MergeGroups(insert_docs(w, e, groups[1].patch_path, groups[1].group),
                     e, Tail(groups))

SummarizedNodes_completion ==
    LET done == SelectSeq(completed, LAMBDA n : results[n] # <<>>)
    IN [i \in 1..Len(done) |-> results[done[i]][1]]

\* line 721: the results that are not None, in the order of nodes_to_process
\* (the list a gather returns follows its arguments, not the completions)
SummarizedNodes ==
    LET done == SelectSeq(nodes_to_process, LAMBDA n : results[n] # <<>>)
    IN [i \in 1..Len(done) |-> results[done[i]][1]]

(***************************************************************************)
(* The run.  asyncio runs the ready callbacks one at a time, oldest first: *)
(* a task's step, or the done-callback that tells a gather one of its      *)
(* children has ended.  The only events from outside are the ends of the   *)
(* posted requests.                                                        *)
(***************************************************************************)
\* the gen_column_summaries task of a node, as a child of the node's gather
GENCOL == "<gen_column_summaries>"

Callback(kind, n, k) == [kind |-> kind, node |-> n, col |-> k]

MainResume == Callback("main_resume", <<>>, TBL)

IsHead(cb) == ready # <<>> /\ Head(ready) = cb

\* main is about to select
RunInit ==
    /\ manifest \in ManifestChoices
    /\ env \in [models : ModelsChoices, dry_run : BOOLEAN]
    /\ selected \in {sel \cup {IdS} : sel \in SUBSET {IdA, IdB}}
    /\ userInput \in {"Y", "n"}
    /\ promptTokens \in
         {[r \in AllRequests |-> IF r \in VariedRequests THEN t[r] ELSE 3095] :
             t \in [VariedRequests -> TokenChoices]}
    /\ phase = "init"
    /\ exc = "none"
    /\ nodes_to_process = <<>>
    /\ nodeTask = [n \in NodeIds |-> "none"]
    /\ requests = [n \in NodeIds |-> 0]
    /\ req = [r \in AllRequests |-> "none"]
    /\ posted = {}
    /\ colGather = [n \in NodeIds |-> "none"]
    /\ genCol = [n \in NodeIds |-> "none"]
    /\ nodeGather = [n \in NodeIds |-> "none"]
    /\ delivered = {}
    /\ batch = "none"
    /\ completed = <<>>
    /\ ready = <<>>
    /\ results = [n \in NodeIds |-> <<>>]
    /\ errors = 0
    /\ files = DeclaredFiles(manifest)
    /\ sidecars = {}
    /\ printedDocs = {}
    /\ printedYaml = {}
    /\ insertCalls = <<>>

\* no function is run on its own
UnitIdle ==
    /\ revNodes = <<>>
    /\ revAns = <<>>
    /\ mergeEnv = [models |-> NoneSet, dry_run |-> FALSE]
    /\ mergeNodes = <<>>
    /\ mergeBefore = <<>>
    /\ mergeAfter = <<>>
    /\ promptArgs = <<>>
    /\ promptAns = <<>>

Init == RunInit /\ UnitIdle

\* main, lines 693-720: the selection, the generated .yml files, and the
\* gather that makes one open_ai_summarize task per node to process (a
\* gather of no task is done at once, and main goes on)
MainSelect ==
    /\ phase = "init"
    /\ LET ntp == NodesToProcess(manifest, env, selected, userInput)
       IN /\ nodes_to_process' = ntp
          /\ files' = FilesAfterSelection(files, manifest, env, selected, userInput)
          /\ manifest' = AssignPatchPaths(manifest, ntp)
          /\ nodeTask' = [n \in NodeIds |-> IF InSeq(n, ntp) THEN "created" ELSE "none"]
          /\ ready' = IF ntp = <<>> THEN <<MainResume>>
                      ELSE [i \in 1..Len(ntp) |-> Callback("node_start", ntp[i], TBL)]
          /\ batch' = IF ntp = <<>> THEN "ok" ELSE "running"
    /\ phase' = "gather"
    /\ UNCHANGED <<unitVars, completed>>
    /\ UNCHANGED <<inputVars, exc, requests, req, posted, colGather, genCol,
                   nodeGather, delivered, results, errors, sidecars,
                   printedDocs, printedYaml, insertCalls>>

\* open_ai_summarize up to line 304: its gather makes a task of the table
\* request and a task of gen_column_summaries
StartNode(n) ==
    /\ phase = "gather"
    /\ IsHead(Callback("node_start", n, TBL))
    /\ nodeTask' = [nodeTask EXCEPT ![n] = "running"]
    /\ requests' = [requests EXCEPT ![n] = @ + 1]
    /\ nodeGather' = [nodeGather EXCEPT ![n] = "running"]
    /\ ready' = Tail(ready) \o <<Callback("request_step", n, TBL),
                                 Callback("gencol_start", n, GENCOL)>>
    /\ UNCHANGED <<unitVars, completed>>
    /\ UNCHANGED <<manifest, inputVars, phase, exc, nodes_to_process, req,
                   posted, colGather, genCol, delivered, batch, results, errors,
                   files, sidecars, printedDocs, printedYaml, insertCalls>>

\* run_openai_request (of the table prompt, or of a column prompt inside
\* mapper, line 287) up to its first suspension: the budget check raises,
\* or the request is posted
RequestStep(n, k) ==
    /\ phase = "gather"
    /\ IsHead(Callback("request_step", n, k))
    /\ LET rejected == TooManyTokens(promptTokens[<<n, k>>])
       IN /\ req' = [req EXCEPT ![<<n, k>>] = IF rejected THEN "rejected" ELSE "posted"]
          /\ posted' = IF rejected THEN posted ELSE posted \cup {<<n, k>>}
          /\ ready' = IF rejected
                      THEN Tail(ready) \o <<Callback("request_done", n, k)>>
                      ELSE Tail(ready)
    /\ UNCHANGED <<unitVars, completed>>
    /\ UNCHANGED <<manifest, inputVars, phase, exc, nodes_to_process, nodeTask,
                   requests, colGather, genCol, nodeGather, delivered, batch,
                   results, errors, files, sidecars, printedDocs, printedYaml,
                   insertCalls>>

\* the column names of a set, in the order of the node's columns
InColumnOrder(node, cols) ==
    SelectSeq(ColumnOrder(node.columns), LAMBDA k : k \in cols)

\* gen_column_summaries up to line 293: one mapper task per filtered column;
\* with no such column the gather is done at once and the dict is returned
StartGenColumnSummaries(n) ==
    /\ phase = "gather"
    /\ IsHead(Callback("gencol_start", n, GENCOL))
    /\ LET cols == InColumnOrder(manifest[n], FilteredColumns(manifest[n]))
       IN /\ req' = [r \in AllRequests |->
                        IF r[1] = n /\ InSeq(r[2], cols) THEN "pending" ELSE req[r]]
          /\ colGather' = [colGather EXCEPT ![n] = IF cols = <<>> THEN "ok" ELSE "running"]
          /\ genCol' = [genCol EXCEPT ![n] = IF cols = <<>> THEN "ok" ELSE "running"]
          /\ ready' = Tail(ready) \o
                        (IF cols = <<>> THEN <<Callback("gencol_done", n, GENCOL)>>
                         ELSE [i \in 1..Len(cols) |->
                                  Callback("request_step", n, cols[i])])
    /\ UNCHANGED <<unitVars, completed>>
    /\ UNCHANGED <<manifest, inputVars, phase, exc, nodes_to_process, nodeTask,
                   requests, posted, nodeGather, delivered, batch, results,
                   errors, files, sidecars, printedDocs, printedYaml, insertCalls>>

\* run_openai_request from the post on: the backend answers, or the post,
\* the status or the body is bad (any exception but TooManyTokensError)
Respond(n, k) ==
    /\ phase = "gather"
    /\ req[<<n, k>>] = "posted"
    /\ \/ /\ req' = [req EXCEPT ![<<n, k>>] = "ok"]
          /\ UNCHANGED errors
       \/ /\ errors < MaxErrors
          /\ req' = [req EXCEPT ![<<n, k>>] = "error"]
          /\ errors' = errors + 1
    /\ ready' = Append(ready, Callback("request_done", n, k))
    /\ UNCHANGED <<unitVars, completed>>
    /\ UNCHANGED <<manifest, inputVars, phase, exc, nodes_to_process, nodeTask,
                   requests, posted, colGather, genCol, nodeGather, delivered,
                   batch, results, files, sidecars, printedDocs, printedYaml,
                   insertCalls>>

\* how a child's end reads to the gather above it
Outcome(state) ==
    CASE state = "rejected" -> "tmt"
      [] state = "error" -> "err"
      [] OTHER -> state

\* the gather of line 304 after the done-callback of child k (the table
\* request or gen_column_summaries) that ended as outcome
NodeGatherAfter(n, k, outcome) ==
    IF outcome # "ok" THEN FirstException(nodeGather[n], outcome)
    ELSE IF {<<n, TBL>>, <<n, GENCOL>>} \subseteq delivered \cup {<<n, k>>}
         THEN FirstException(nodeGather[n], "ok")
    ELSE nodeGather[n]

\* the gather of line 293 after the done-callback of column k's mapper
ColGatherAfter(n, k, outcome) ==
    IF outcome # "ok" THEN FirstException(colGather[n], outcome)
    ELSE IF {<<n, c>> : c \in FilteredColumns(manifest[n])}
                \subseteq delivered \cup {<<n, k>>}
         THEN FirstException(colGather[n], "ok")
    ELSE colGather[n]

\* the done-callback of a request's task: the gather above it takes the
\* first exception or, when all its children are done, the results, and
\* wakes the task that awaits it
RequestDone(n, k) ==
    /\ phase = "gather"
    /\ IsHead(Callback("request_done", n, k))
    /\ delivered' = delivered \cup {<<n, k>>}
    /\ IF k = TBL
       THEN /\ nodeGather' = [nodeGather EXCEPT
                                 ![n] = NodeGatherAfter(n, k, Outcome(req[<<n, k>>]))]
            /\ ready' = IF nodeGather'[n] # nodeGather[n]
                        THEN Tail(ready) \o <<Callback("node_resume", n, TBL)>>
                        ELSE Tail(ready)
            /\ UNCHANGED colGather
       ELSE /\ colGather' = [colGather EXCEPT
                                ![n] = ColGatherAfter(n, k, Outcome(req[<<n, k>>]))]
            /\ ready' = IF colGather'[n] # colGather[n]
                        THEN Tail(ready) \o <<Callback("gencol_resume", n, GENCOL)>>
                        ELSE Tail(ready)
            /\ UNCHANGED nodeGather
    /\ UNCHANGED <<unitVars, completed>>
    /\ UNCHANGED <<manifest, inputVars, phase, exc, nodes_to_process, nodeTask,
                   requests, req, posted, genCol, batch, results, errors, files,
                   sidecars, printedDocs, printedYaml, insertCalls>>

\* gen_column_summaries resumes from line 293: it returns the dict, or the
\* gather's exception leaves it
GenColumnSummariesReturn(n) ==
    /\ phase = "gather"
    /\ IsHead(Callback("gencol_resume", n, GENCOL))
    /\ genCol' = [genCol EXCEPT ![n] = colGather[n]]
    /\ ready' = Tail(ready) \o <<Callback("gencol_done", n, GENCOL)>>
    /\ UNCHANGED <<unitVars, completed>>
    /\ UNCHANGED <<manifest, inputVars, phase, exc, nodes_to_process, nodeTask,
                   requests, req, posted, colGather, nodeGather, delivered,
                   batch, results, errors, files, sidecars, printedDocs,
                   printedYaml, insertCalls>>

\* the done-callback of the gen_column_summaries task on the gather of
\* line 304
GenColumnSummariesDone(n) ==
    /\ phase = "gather"
    /\ IsHead(Callback("gencol_done", n, GENCOL))
    /\ delivered' = delivered \cup {<<n, GENCOL>>}
    /\ nodeGather' = [nodeGather EXCEPT ![n] = NodeGatherAfter(n, GENCOL, genCol[n])]
    /\ ready' = IF nodeGather'[n] # nodeGather[n]
                THEN Tail(ready) \o <<Callback("node_resume", n, TBL)>>
                ELSE Tail(ready)
    /\ UNCHANGED <<unitVars, completed>>
    /\ UNCHANGED <<manifest, inputVars, phase, exc, nodes_to_process, nodeTask,
                   requests, req, posted, colGather, genCol, batch, results,
                   errors, files, sidecars, printedDocs, printedYaml, insertCalls>>

SummarizeOutcome_raising(future) ==
    CASE future = "ok" -> "Documented"
      [] OTHER -> "Failed"

\* lines 308-322: return the result, return None, or re-raise
SummarizeOutcome(future) ==
    CASE future = "ok" -> "Documented"
      [] future = "tmt" -> "Skipped"
      [] OTHER -> "Failed"

\* open_ai_summarize resumes from line 304
OpenAiSummarizeReturn(n) ==
    /\ phase = "gather"
    /\ IsHead(Callback("node_resume", n, TBL))
    /\ nodeTask' = [nodeTask EXCEPT ![n] = SummarizeOutcome(nodeGather[n])]
    /\ results' = [results EXCEPT
           ![n] = IF SummarizeOutcome(nodeGather[n]) = "Documented"
                  THEN <<SummarizedResult(n)>> ELSE <<>>]
    /\ ready' = Tail(ready) \o <<Callback("node_done", n, TBL)>>
    /\ UNCHANGED <<unitVars, completed>>
    /\ UNCHANGED <<manifest, inputVars, phase, exc, nodes_to_process, requests,
                   req, posted, colGather, genCol, nodeGather, delivered, batch,
                   errors, files, sidecars, printedDocs, printedYaml, insertCalls>>

\* the gather of line 720 after the done-callback of node n's task: no
\* return_exceptions, so the first exception is the gather's
BatchAfter(n) ==
    IF nodeTask[n] = "Failed" THEN FirstException(batch, "raised")
    ELSE IF \A i \in 1..Len(nodes_to_process) :
                <<nodes_to_process[i], "<node>">> \in delivered \cup {<<n, "<node>">>}
         THEN FirstException(batch, "ok")
    ELSE batch

\* the done-callback of a node task on the gather of line 720
NodeDone(n) ==
    /\ phase = "gather"
    /\ IsHead(Callback("node_done", n, TBL))
    /\ delivered' = delivered \cup {<<n, "<node>">>}
    /\ batch' = BatchAfter(n)
    /\ completed' = Append(completed, n)
    /\ ready' = IF batch' # batch THEN Tail(ready) \o <<MainResume>> ELSE Tail(ready)
    /\ UNCHANGED unitVars
    /\ UNCHANGED <<manifest, inputVars, phase, exc, nodes_to_process, nodeTask,
                   requests, req, posted, colGather, genCol, nodeGather, results,
                   errors, files, sidecars, printedDocs, printedYaml, insertCalls>>

Failed == {n \in NodeIds : nodeTask[n] = "Failed"}

\* main resumes from line 720 with the exception of a node task: nothing
\* catches it, it leaves main, and asyncio.run (line 737) cancels the tasks
\* that have not ended
MainAbort ==
    /\ phase = "gather"
    /\ IsHead(MainResume)
    /\ batch = "raised"
    /\ phase' = "aborted"
    /\ exc' = "BackendError"
    /\ nodeTask' = [n \in NodeIds |->
                       IF nodeTask[n] \in {"created", "running"} THEN "Cancelled"
                       ELSE nodeTask[n]]
    /\ ready' = <<>>
    /\ UNCHANGED <<unitVars, completed>>
    /\ UNCHANGED <<manifest, inputVars, nodes_to_process, requests, req, posted,
                   colGather, genCol, nodeGather, delivered, batch, results,
                   errors, files, sidecars, printedDocs, printedYaml, insertCalls>>

\* main resumes from line 720 with the list of results: those that are not
\* None are sorted and grouped by patch_path and merged (lines 721-724);
\* then line 727 calls run_dbt_docs_generate with one argument of its two,
\* a TypeError that leaves main
MainMerge ==
    /\ phase = "gather"
    /\ IsHead(MainResume)
    /\ batch = "ok"
    /\ LET w == MergeGroups(
                    World(files, sidecars, printedDocs, printedYaml, "none",
                          insertCalls),
                    env, GroupByPatch(SortedByPatch(SummarizedNodes)))
       IN /\ files' = w.files
          /\ sidecars' = w.sidecars
          /\ printedDocs' = w.printedDocs
          /\ printedYaml' = w.printedYaml
          /\ insertCalls' = w.calls
          /\ exc' = IF w.exc # "none" THEN w.exc ELSE "TypeError"
    /\ phase' = "merged"
    /\ ready' = <<>>
    /\ UNCHANGED <<unitVars, completed>>
    /\ UNCHANGED <<manifest, inputVars, nodes_to_process, nodeTask, requests,
                   req, posted, colGather, genCol, nodeGather, delivered, batch,
                   results, errors>>

Next ==
    \/ MainSelect
    \/ \E n \in NodeIds : StartNode(n)
    \/ \E r \in AllRequests : RequestStep(r[1], r[2])
    \/ \E n \in NodeIds : StartGenColumnSummaries(n)
    \/ \E r \in AllRequests : Respond(r[1], r[2])
    \/ \E r \in AllRequests : RequestDone(r[1], r[2])
    \/ \E n \in NodeIds : GenColumnSummariesReturn(n)
    \/ \E n \in NodeIds : GenColumnSummariesDone(n)
    \/ \E n \in NodeIds : OpenAiSummarizeReturn(n)
    \/ \E n \in NodeIds : NodeDone(n)
    \/ MainAbort
    \/ MainMerge

Spec == Init /\ [][Next]_vars

(***************************************************************************)
(* Properties of the run.                                                  *)
(***************************************************************************)
RunEnded == phase \in {"aborted", "merged"}

Processed(n) == InSeq(n, nodes_to_process)

\* insert_docs was called with the result of node n
Merged(n) ==
    \E i \in 1..Len(insertCalls) :
        /\ insertCalls[i].patch_path = manifest[n].patch_path
        /\ InSeq(manifest[n].name, insertCalls[i].names)

\* the declaration files before the run
OriginalFile(p) == IF p \in {File1, File2} THEN DeclaredFiles(manifest)[p] ELSE NoFile

\* C1: when the run has ended with one node Failed on a backend error and
\* another node Documented, no node task was cancelled and the Documented
\* node's result was passed to insert_docs.
C1_FailureKeepsSiblingResults ==
    \A n \in NodeIds, m \in NodeIds :
        (RunEnded /\ nodeTask[n] = "Failed" /\ nodeTask[m] = "Documented")
            => /\ \A o \in NodeIds : nodeTask[o] # "Cancelled"
               /\ Merged(m)

\* C2: when the run has ended and a node task raised a backend error, the
\* batch was run again: every node to process was requested at least twice.
C2_BatchRetriedAfterFailure ==
    (RunEnded /\ Failed # {})
        => \A n \in NodeIds : Processed(n) => requests[n] >= 2

\* the table prompt of node n is over the budget
TableOverBudget(n) == promptTokens[<<n, TBL>>] >= 3096

\* a column prompt that node n asks for is over the budget
ColumnOverBudget(n) ==
    \E k \in DOMAIN manifest[n].columns :
        manifest[n].columns[k] = "" /\ promptTokens[<<n, k>>] >= 3096

\* no file of node n was written
NothingWrittenFor(n) ==
    /\ \A f \in sidecars :
           /\ f.path # MdPath(DocName(manifest[n].name))
           /\ \A k \in DOMAIN manifest[n].columns :
                  f.path # MdPath(ColumnDocName(manifest[n].name, k))
    /\ ~Merged(n)

\* C3: when the run has ended and the table prompt of a processed node was
\* over the budget, the node is Skipped with no result, the run reached the
\* merge, nothing was written for the node, and every Documented node was
\* merged.
C3_TableRejectionSkipsNode ==
    \A n \in NodeIds :
        (RunEnded /\ Processed(n) /\ TableOverBudget(n))
            => /\ nodeTask[n] = "Skipped"
               /\ results[n] = <<>>
               /\ phase = "merged"
               /\ NothingWrittenFor(n)
               /\ \A m \in NodeIds : nodeTask[m] = "Documented" => Merged(m)

\* node n has returned or raised
Returned(n) == nodeTask[n] \in {"Documented", "Skipped", "Failed"}

\* C4 as stated: a node whose table prompt passes the budget and one of
\* whose column prompts is rejected ends Failed.
C4_ColumnRejectionFailsNode ==
    \A n \in NodeIds :
        (Returned(n) /\ ~TableOverBudget(n) /\ ColumnOverBudget(n))
            => nodeTask[n] = "Failed"

\* C4 amended: such a node never ends Documented; it ends Skipped, without
\* a result and without an exception, unless a backend error of one of its
\* requests reached open_ai_summarize first, and only then does it end Failed.
C4_ColumnRejectionSkipsNode ==
    \A n \in NodeIds :
        (Returned(n) /\ ~TableOverBudget(n) /\ ColumnOverBudget(n))
            => /\ nodeTask[n] # "Documented"
               /\ results[n] = <<>>
               /\ nodeTask[n] = "Failed" => \E r \in AllRequests :
                                                r[1] = n /\ req[r] = "error"
               /\ nodeGather[n] = "tmt" => nodeTask[n] = "Skipped"

C4_Witness ==
    \E n \in NodeIds :
        /\ ~TableOverBudget(n) /\ ColumnOverBudget(n)
        /\ nodeTask[n] = "Skipped"
        /\ phase = "merged"

\* C5: a request is rejected exactly when its prompt has 3096 tokens or
\* more (tokens + 1000 >= 4096), and a rejected prompt is never posted.
C5_TokenBudget ==
    \A r \in AllRequests :
        /\ req[r] = "rejected" => promptTokens[r] >= 3096
        /\ (req[r] \in {"posted", "ok", "error"}) => promptTokens[r] <= 3095
        /\ r \in posted <=> req[r] \in {"posted", "ok", "error"}
        /\ r \in posted => promptTokens[r] + 1000 < 4096

C5_Witness ==
    /\ \E r \in AllRequests : r[2] = TBL /\ promptTokens[r] = 3096 /\ req[r] = "rejected"
    /\ \E r \in AllRequests : r[2] # TBL /\ promptTokens[r] = 3096 /\ req[r] = "rejected"
    /\ \E r \in AllRequests : promptTokens[r] = 3095 /\ req[r] = "ok"

\* C7: in a dry run no declaration file and no sidecar is created or changed.
C7_DryRunWritesNothing ==
    env.dry_run => /\ sidecars = {}
                   /\ \A p \in FilePaths : files[p] = OriginalFile(p)

EligibleNonModel(n) ==
    /\ SplitHead(n) # <<"model">>
    /\ n \in selected
    /\ manifest[n].description = ""
    /\ manifest[n].patch_path # NoneStr

\* C10 as stated: a generation is requested for such a node.
C10_NonModelIsTarget ==
    \A n \in NodeIds : (RunEnded /\ EligibleNonModel(n)) => requests[n] >= 1

\* C10 amended: a node that is not of kind "model" is never a documentation
\* target: it is not among the nodes to process and nothing is requested,
\* posted or merged for it.
C10_NonModelNeverTarget ==
    \A n \in NodeIds :
        SplitHead(n) # <<"model">>
            => /\ ~Processed(n)
               /\ requests[n] = 0
               /\ \A r \in posted : r[1] # n
               /\ ~Merged(n)

C10_Witness ==
    /\ RunEnded
    /\ \E n \in NodeIds : EligibleNonModel(n) /\ requests[n] = 0
                          /\ (env.models # NoneSet => manifest[n].name \in env.models[1])
    /\ \E m \in NodeIds : requests[m] > 0

(***************************************************************************)
(* mk_reverse_dependency_map, run on its own over bounded node mappings.   *)
(***************************************************************************)
\* how many nodes the mapping holds at most
MaxNodes == 2
\* how many ids a Dependencies.nodes list holds at most
MaxDeps == 2

SeqsUpTo(S, n) == UNION {[1..k -> S] : k \in 0..n}

\* an identifier with no separator at all
IdBare == <<"model">>

\* the ids of the mapping, and the ids a node may depend on
RevIds == {IdA, IdB, IdS, IdBare}
RevTargets == {IdA, IdS}

\* metadata.depends_on: None, or a Depends with its nodes
NoDepends == [present |-> FALSE, nodes |-> <<>>]
Depends(nodes) == [present |-> TRUE, nodes |-> nodes]

\* the node mappings the model draws: a dict, so no id twice
RevMappings ==
    {m \in SeqsUpTo([id : RevIds,
                     depends_on : {NoDepends}
                                  \cup {Depends(d) : d \in SeqsUpTo(RevTargets, MaxDeps)}],
                    MaxNodes) :
        \A i \in 1..Len(m), j \in 1..Len(m) : i # j => m[i].id # m[j].id}

AppendDependent_overwriting(ans, model_dep, nm) ==
    (model_dep :> <<nm>>) @@ ans

\* lines 517-520
AppendDependent(ans, model_dep, nm) ==
    IF model_dep \in DOMAIN ans
    THEN [ans EXCEPT ![model_dep] = Append(@, nm)]
    ELSE (model_dep :> <<nm>>) @@ ans

\* lines 516-520: the loop over the dependencies of one node
RECURSIVE AppendDependents(_, _, _)
AppendDependents(ans, nodes, nm) ==
    IF nodes = <<>> THEN ans
    ELSE AppendDependents(AppendDependent(ans, Head(nodes), nm), Tail(nodes), nm)

\* folder, lines 512-520
folder(ans, nm, metadata) ==
    LET nodes == IF metadata.depends_on.present THEN metadata.depends_on.nodes
                 ELSE <<>>
    IN IF is_model(nm) THEN AppendDependents(ans, nodes, nm) ELSE ans

\* lines 522-523: the loop over the mapping
RECURSIVE FoldNodes(_, _)
FoldNodes(ans, nodes) ==
    IF nodes = <<>> THEN ans
    ELSE FoldNodes(folder(ans, Head(nodes).id, Head(nodes)), Tail(nodes))

mk_reverse_dependency_map(nodes) == FoldNodes(<<>>, nodes)

\* the state of main while a function is run on its own
RunIdle ==
    /\ manifest = (IdA :> NodeMetadata("a", "", Patch1, ColumnsA)
                   @@ IdB :> NodeMetadata("b", "", Patch1, NoColumns)
                   @@ IdS :> NodeMetadata("s", "", Patch2, NoColumns))
    /\ env = [models |-> NoneSet, dry_run |-> FALSE]
    /\ selected = {}
    /\ userInput = "n"
    /\ promptTokens = [r \in AllRequests |-> 3095]
    /\ phase = "off"
    /\ exc = "none"
    /\ nodes_to_process = <<>>
    /\ nodeTask = [n \in NodeIds |-> "none"]
    /\ requests = [n \in NodeIds |-> 0]
    /\ req = [r \in AllRequests |-> "none"]
    /\ posted = {}
    /\ colGather = [n \in NodeIds |-> "none"]
    /\ genCol = [n \in NodeIds |-> "none"]
    /\ nodeGather = [n \in NodeIds |-> "none"]
    /\ delivered = {}
    /\ batch = "none"
    /\ completed = <<>>
    /\ ready = <<>>
    /\ results = [n \in NodeIds |-> <<>>]
    /\ errors = 0
    /\ files = DeclaredFiles(manifest)
    /\ sidecars = {}
    /\ printedDocs = {}
    /\ printedYaml = {}
    /\ insertCalls = <<>>

RevInit ==
    /\ RunIdle
    /\ revNodes \in RevMappings
    /\ revAns = <<>>
    /\ mergeEnv = [models |-> NoneSet, dry_run |-> FALSE]
    /\ mergeNodes = <<>>
    /\ mergeBefore = <<>>
    /\ mergeAfter = <<>>
    /\ promptArgs = <<>>
    /\ promptAns = <<>>

\* line 696: r_deps = mk_reverse_dependency_map(manifest.nodes)
MkReverseDependencyMap ==
    /\ revAns = <<>>
    /\ phase = "off"
    /\ revAns' = <<mk_reverse_dependency_map(revNodes)>>
    /\ UNCHANGED <<runVars, revNodes, mergeEnv, mergeNodes, mergeBefore, mergeAfter,
                   promptArgs, promptAns>>

RevNext == MkReverseDependencyMap

SpecRev == RevInit /\ [][RevNext]_vars

\* how often u stands in a dependency list
RECURSIVE Occurrences(_, _)
Occurrences(u, nodes) ==
    IF nodes = <<>> THEN 0
    ELSE (IF Head(nodes) = u THEN 1 ELSE 0) + Occurrences(u, Tail(nodes))

RECURSIVE Repeat(_, _)
Repeat(x, n) == IF n = 0 THEN <<>> ELSE <<x>> \o Repeat(x, n - 1)

\* the dependents of kind "model" of u among the first i nodes of the
\* mapping, in the mapping's order, once per occurrence of u
RECURSIVE ModelDependents(_, _)
ModelDependents(u, i) ==
    IF i = 0 THEN <<>>
    ELSE ModelDependents(u, i - 1)
         \o (IF SplitHead(revNodes[i].id) = <<"model">>
             THEN Repeat(revNodes[i].id,
                         Occurrences(u, revNodes[i].depends_on.nodes))
             ELSE <<>>)

\* C9: the reverse list of u is the sequence of the model-kind ids that
\* list u, in the mapping's order and once per occurrence: an id nobody of
\* kind "model" depends on has no entry, no dependent that is not a model
\* stands in a list, and a node with no dependencies stands in no list.
C9_ReverseMapIsModelDependents ==
    revAns # <<>>
        => LET ans == revAns[1]
           IN /\ \A u \in RevIds \cup RevTargets :
                     IF ModelDependents(u, Len(revNodes)) = <<>>
                     THEN u \notin DOMAIN ans
                     ELSE u \in DOMAIN ans
                          /\ ans[u] = ModelDependents(u, Len(revNodes))
              /\ DOMAIN ans \subseteq RevIds \cup RevTargets
              /\ \A u \in DOMAIN ans : \A i \in 1..Len(ans[u]) :
                     /\ SplitHead(ans[u][i]) = <<"model">>
                     /\ \E j \in 1..Len(revNodes) :
                            /\ revNodes[j].id = ans[u][i]
                            /\ revNodes[j].depends_on.nodes # <<>>

\* two model dependents of one id, one of them twice, beside a dependent
\* that is not a model
C9_Witness ==
    /\ revAns # <<>>
    /\ \E u \in DOMAIN revAns[1] : Len(revAns[1][u]) >= 2
    /\ \E j \in 1..Len(revNodes) :
           /\ SplitHead(revNodes[j].id) # <<"model">>
           /\ revNodes[j].depends_on.nodes # <<>>

(***************************************************************************)
(* insert_docs, run on its own over bounded declaration files and results. *)
(***************************************************************************)
\* how many entries the "models" sequence holds at most
MaxEntries == 2
\* how many entries the "columns" sequence of a model entry holds at most
MaxColumnEntries == 2
\* how many results insert_docs is given at most
MaxResults == 1

\* the column entries, model entries and files the model draws
ColumnEntries == {ColumnEntry(k, "old text", "tests of " \o k) : k \in {"c1", "c2"}}

ModelEntries ==
    {ModelEntry(nm, "old text", "meta of " \o nm, cols) :
        nm \in {"a", "b"}, cols \in SeqsUpTo(ColumnEntries, MaxColumnEntries)}

DeclarationFiles ==
    {[exists |-> TRUE, top |-> "version: 2", models |-> ms] :
        ms \in SeqsUpTo(ModelEntries, MaxEntries)}

\* the results the model draws: of node a, with or without a summary of c1
MergeResults ==
    {[patch_path |-> Patch1, name |-> "a",
      summary |-> SummaryPrefix \o "completion",
      column_summaries |-> [k \in keys |-> ColumnPrefix \o "completion"]] :
        keys \in {{}, {"c1"}}}

MergeInit ==
    /\ RunIdle
    /\ revNodes = <<>>
    /\ revAns = <<>>
    /\ mergeEnv \in [models : {NoneSet}, dry_run : BOOLEAN]
    /\ mergeNodes \in SeqsUpTo(MergeResults, MaxResults)
    /\ mergeBefore \in
         {<<World([p \in FilePaths |-> IF p = File1 THEN f ELSE NoFile],
                  {}, {}, {}, "none", <<>>)>> : f \in DeclarationFiles}
    /\ mergeAfter = <<>>
    /\ promptArgs = <<>>
    /\ promptAns = <<>>

\* line 724: insert_docs(env, patch_path, list(group))
InsertDocs ==
    /\ phase = "off"
    /\ mergeBefore # <<>>
    /\ mergeAfter = <<>>
    /\ mergeAfter' = <<insert_docs(mergeBefore[1], mergeEnv, Patch1, mergeNodes)>>
    /\ UNCHANGED <<runVars, revNodes, revAns, mergeEnv, mergeNodes, mergeBefore,
                   promptArgs, promptAns>>

MergeNext == InsertDocs

SpecMerge == MergeInit /\ [][MergeNext]_vars

\* the file insert_docs read, and the file it wrote (in a dry run: printed)
FileBefore == mergeBefore[1].files[File1]

FileAfter ==
    IF mergeEnv.dry_run
    THEN (CHOOSE y \in mergeAfter[1].printedYaml : y.path = File1).content
    ELSE mergeAfter[1].files[File1]

ResultNames == {mergeNodes[i].name : i \in 1..Len(mergeNodes)}

\* the column summaries of the result insert_docs uses for a name
SummaryKeys(nm) ==
    LET at == {i \in 1..Len(mergeNodes) : mergeNodes[i].name = nm}
    IN DOMAIN mergeNodes[CHOOSE i \in at : \A j \in at : j <= i].column_summaries

\* C6: after insert_docs, the other top-level keys are kept, a model entry
\* whose name has no result is as it was, and in an entry with a result
\* only "description" may differ: of the entry itself, and of the column
\* entries whose name the result has a summary for.
C6_InsertDocsFrame ==
    mergeAfter # <<>>
        => /\ FileAfter.exists = FileBefore.exists
           /\ FileAfter.top = FileBefore.top
           /\ Len(FileAfter.models) = Len(FileBefore.models)
           /\ \A p \in FilePaths \ {File1} :
                  mergeAfter[1].files[p] = mergeBefore[1].files[p]
           /\ mergeEnv.dry_run
                  => /\ mergeAfter[1].files = mergeBefore[1].files
                     /\ mergeAfter[1].sidecars = mergeBefore[1].sidecars
           /\ \A i \in 1..Len(FileBefore.models) :
                  LET old == FileBefore.models[i]
                      new == FileAfter.models[i]
                  IN IF old.name \notin ResultNames THEN new = old
                     ELSE /\ new.name = old.name
                          /\ new.extra = old.extra
                          /\ Len(new.columns) = Len(old.columns)
                          /\ \A j \in 1..Len(old.columns) :
                                 /\ new.columns[j].name = old.columns[j].name
                                 /\ new.columns[j].extra = old.columns[j].extra
                                 /\ old.columns[j].name \notin SummaryKeys(old.name)
                                        => new.columns[j] = old.columns[j]

\* a file written with a changed entry that has a changed and an unchanged
\* column, beside an entry with no result
C6_Witness ==
    /\ mergeAfter # <<>>
    /\ ~mergeEnv.dry_run
    /\ \E i \in 1..Len(FileBefore.models) :
           /\ FileBefore.models[i].name \in ResultNames
           /\ FileAfter.models[i].description # FileBefore.models[i].description
           /\ \E j \in 1..Len(FileBefore.models[i].columns) :
                  FileAfter.models[i].columns[j] # FileBefore.models[i].columns[j]
           /\ \E j \in 1..Len(FileBefore.models[i].columns) :
                  FileAfter.models[i].columns[j] = FileBefore.models[i].columns[j]
    /\ \E i \in 1..Len(FileBefore.models) : FileBefore.models[i].name \notin ResultNames

(***************************************************************************)
(* mk_column_prompt, run on its own over bounded nodes, columns and        *)
(* mappings of documented nodes.                                           *)
(***************************************************************************)
\* how many ids the depends_on.nodes of the node being documented holds
MaxUpstream == 2
\* how many columns an upstream node holds at most
MaxUpstreamColumns == 2

ColumnMetadata_depending(name, description) ==
    [name |-> name, description |-> description,
     depends_on |-> [columns |-> {name}]]

\* lines 39-42: a ColumnMetadata has a name and a description, nothing else
\* (parse_columns drops every other key of the column, lines 554-559)
ColumnMetadata(name, description) ==
    [name |-> name, description |-> description]

\* line 159: the module's global, an empty dict.  Line 679 of main binds a
\* local of the same name, so the global that the mapper of line 288 reads
\* stays empty for the whole run.
documented_nodes == <<>>

\* lines 614-620
get_nodes_with_description(mf) ==
    [id \in {i \in DOMAIN mf : mf[i].description # ""} |-> mf[id]]

\* the columns an upstream node may hold, in the order of its dict
UpstreamColumns ==
    SeqsUpTo({ColumnMetadata(k, d) : k \in {"c1", "c2"},
                                     d \in {"", "documented column"}},
             MaxUpstreamColumns)

\* the manifests the mapping of documented nodes is taken from
UpstreamManifests ==
    {(IdA :> [name |-> "a", description |-> da, columns |-> cols]
      @@ IdS :> [name |-> "s", description |-> ds, columns |-> <<>>]) :
        da \in {"", "documented a"}, ds \in {"", "documented s"},
        cols \in UpstreamColumns}

\* what mk_column_prompt is given: the node being documented, one of its
\* undocumented columns, and the global or a mapping of documented nodes
PromptArguments ==
    [node : [name : {"b"}, raw_code : {"select 1"},
             depends_on : {NoDepends}
                          \cup {Depends(d) : d \in SeqsUpTo(RevTargets, MaxUpstream)}],
     col : {ColumnMetadata(k, "") : k \in {"c1", "c2"}},
     documented_nodes : {documented_nodes}
                        \cup {get_nodes_with_description(mf) : mf \in UpstreamManifests}]

\* dep_col.depends_on.columns can be read
HasDependsOnColumns(dep_col) ==
    /\ "depends_on" \in DOMAIN dep_col
    /\ "columns" \in DOMAIN dep_col.depends_on

\* lines 201-202, for one upstream column: reading an attribute the object
\* does not have raises AttributeError
ScanColumn(acc, dep_col) ==
    IF acc.exc # "none" THEN acc
    ELSE IF ~HasDependsOnColumns(dep_col)
         THEN [acc EXCEPT !.exc = "AttributeError"]
         ELSE IF dep_col.name \in dep_col.depends_on.columns
              THEN [acc EXCEPT !.docs = Append(@, dep_col.description)]
              ELSE acc

\* lines 200-202
RECURSIVE ScanColumns(_, _)
ScanColumns(acc, cols) ==
    IF cols = <<>> THEN acc
    ELSE ScanColumns(ScanColumn(acc, Head(cols)), Tail(cols))

\* lines 197-202
RECURSIVE ScanDeps(_, _, _)
ScanDeps(acc, deps, documented) ==
    IF deps = <<>> THEN acc
    ELSE ScanDeps(IF Head(deps) \in DOMAIN documented
                  THEN ScanColumns(acc, documented[Head(deps)].columns)
                  ELSE acc,
                  Tail(deps), documented)

\* line 205: "\n\n".join(inherited_docs)
RECURSIVE JoinDocs(_)
JoinDocs(docs) ==
    IF docs = <<>> THEN ""
    ELSE IF Len(docs) = 1 THEN docs[1]
         ELSE docs[1] \o "\n\n" \o JoinDocs(Tail(docs))

\* lines 206-208
Inheritance(inherited_docs_str) ==
    IF inherited_docs_str # ""
    THEN "This column is inherited from another model. Inherited documentation: "
         \o inherited_docs_str \o " "
    ELSE ""

\* lines 193-223: the prompt by its variable parts, or the exception raised
mk_column_prompt(node, col, documented) ==
    LET deps == IF node.depends_on.present /\ node.depends_on.nodes # <<>>
                THEN node.depends_on.nodes ELSE <<>>
        scan == ScanDeps([exc |-> "none", docs |-> <<>>], deps, documented)
    IN IF scan.exc # "none"
       THEN [exc |-> scan.exc, column_name |-> NoneStr, parent |-> NoneStr,
             raw_code |-> NoneStr, inheritance |-> NoneStr]
       ELSE [exc |-> "none", column_name |-> col.name, parent |-> node.name,
             raw_code |-> node.raw_code,
             inheritance |-> Inheritance(JoinDocs(scan.docs))]

PromptInit ==
    /\ RunIdle
    /\ revNodes = <<>>
    /\ revAns = <<>>
    /\ mergeEnv = [models |-> NoneSet, dry_run |-> FALSE]
    /\ mergeNodes = <<>>
    /\ mergeBefore = <<>>
    /\ mergeAfter = <<>>
    /\ promptArgs \in {<<a>> : a \in PromptArguments}
    /\ promptAns = <<>>

\* line 288: mk_column_prompt(node, column, documented_nodes)
MkColumnPrompt ==
    /\ phase = "off"
    /\ promptArgs # <<>>
    /\ promptAns = <<>>
    /\ promptAns' = <<mk_column_prompt(promptArgs[1].node, promptArgs[1].col,
                                       promptArgs[1].documented_nodes)>>
    /\ UNCHANGED <<runVars, revNodes, revAns, mergeEnv, mergeNodes, mergeBefore,
                   mergeAfter, promptArgs>>

PromptNext == MkColumnPrompt

SpecPrompt == PromptInit /\ [][PromptNext]_vars

\* the prompt came back with the inherited-documentation block in it
BlockIncluded ==
    /\ promptAns # <<>>
    /\ promptAns[1].exc = "none"
    /\ promptAns[1].inheritance # ""

\* the upstream dependencies of the node that are documented nodes
DocumentedUpstream ==
    LET node == promptArgs[1].node
    IN {node.depends_on.nodes[i] : i \in 1..Len(node.depends_on.nodes)}
       \cap DOMAIN promptArgs[1].documented_nodes

\* a documented upstream node has a column whose inherited-dependency
\* reference names the column being documented
MatchingUpstreamColumn ==
    \E dep \in DocumentedUpstream :
        LET cols == promptArgs[1].documented_nodes[dep].columns
        IN \E j \in 1..Len(cols) :
               /\ HasDependsOnColumns(cols[j])
               /\ promptArgs[1].col.name \in cols[j].depends_on.columns

\* C11: the prompt of a column holds the inherited-documentation block
\* only when a dependency of the node that is among the documented nodes
\* has a column whose inherited-dependency reference is the name of the
\* column being documented; with no such upstream column there is no block.
C11_InheritedBlockOnlyOnMatch ==
    /\ BlockIncluded => MatchingUpstreamColumn
    /\ (promptAns # <<>> /\ promptAns[1].exc = "none" /\ ~MatchingUpstreamColumn)
           => promptAns[1].inheritance = ""

\* a prompt built for a node with a documented dependency, no upstream
\* column referring to the column, and no block in the prompt
C11_Witness ==
    /\ promptAns # <<>>
    /\ promptAns[1].exc = "none"
    /\ promptAns[1].column_name = promptArgs[1].col.name
    /\ DocumentedUpstream # {}
    /\ ~MatchingUpstreamColumn
    /\ promptAns[1].inheritance = ""

(***************************************************************************)
(* Properties of the merge step of the run.                                *)
(***************************************************************************)
\* the successful results of the run, in the order of nodes_to_process
SuccessfulResults ==
    LET done == SelectSeq(nodes_to_process, LAMBDA n : results[n] # <<>>)
    IN [i \in 1..Len(done) |-> results[done[i]][1]]

\* the destination paths among the successful results
ResultPaths == {SuccessfulResults[i].patch_path : i \in 1..Len(SuccessfulResults)}

\* the names of the successful results destined for path p, in that order
NamesFor(p) ==
    LET at == SelectSeq(SuccessfulResults, LAMBDA r : r.patch_path = p)
    IN [i \in 1..Len(at) |-> at[i].name]

\* the insert_docs calls made for path p
CallsFor(p) == {i \in 1..Len(insertCalls) : insertCalls[i].patch_path = p}

\* the description the declaration file holds for the model entry nm
WrittenDescriptions(p, nm) ==
    LET f == files[ResolvePath(p)]
    IN {f.models[i].description : i \in {j \in 1..Len(f.models) : f.models[j].name = nm}}

\* C12: when the run has ended, insert_docs was called exactly once for
\* every destination path among the successful results, with all the
\* results of that path, and (outside a dry run) the file of that path
\* holds the generated description of every one of them.
C12_OneInsertDocsPerPath ==
    RunEnded
        => \A p \in ResultPaths :
               /\ Cardinality(CallsFor(p)) = 1
               /\ \A i \in CallsFor(p) : insertCalls[i].names = NamesFor(p)
               /\ ~env.dry_run
                      => \A k \in 1..Len(NamesFor(p)) :
                             WrittenDescriptions(p, NamesFor(p)[k])
                                 = {DocRef(DocName(NamesFor(p)[k]))}

\* the declaration files when the merge starts: those the manifest was
\* compiled from, and those generateYaml wrote during the selection
PreMergeFile(p) ==
    IF p \in {File1, File2} THEN OriginalFile(p)
    ELSE LET gen == {n \in NodeIds : Processed(n) /\ manifest[n].patch_path = p}
         IN IF gen = {} THEN NoFile ELSE generateYaml(manifest[CHOOSE n \in gen : TRUE])

\* the destination paths among the successful results, ascending
SortedResultPaths ==
    [i \in 1..Cardinality(ResultPaths) |->
        CHOOSE p \in ResultPaths :
            Cardinality({q \in ResultPaths : PatchRank(q) < PatchRank(p)}) = i - 1]

\* one call per destination path, ascending, with the results of the path
ExpectedCalls ==
    [i \in 1..Len(SortedResultPaths) |->
        [patch_path |-> SortedResultPaths[i], names |-> NamesFor(SortedResultPaths[i])]]

\* the paths of the files the successful results are destined for
ResultFiles == {ResolvePath(p) : p \in ResultPaths}

\* the file p after the merge of the successful results destined for it
ExpectedFile(p) ==
    LET rs == SelectSeq(SuccessfulResults, LAMBDA r : ResolvePath(r.patch_path) = p)
    IN IF rs = <<>> THEN PreMergeFile(p)
       ELSE [PreMergeFile(p) EXCEPT !.models = insert_docs_models(@, rs)]

\* C13: insert_docs is called only when every node task of the batch has
\* ended, and what the merge does is fixed by the per-node results alone,
\* whatever the order the tasks ended in: one call per destination path in
\* ascending order with the results of that path in selection order, and
\* declaration files (printed files in a dry run) that hold just these
\* results.
C13_MergeAfterAllAndOrderFree ==
    /\ (phase = "merged" \/ insertCalls # <<>>)
           => \A n \in NodeIds :
                  Processed(n) => /\ nodeTask[n] \in {"Documented", "Skipped"}
                                  /\ InSeq(n, completed)
    /\ phase = "merged"
           => /\ insertCalls = ExpectedCalls
              /\ IF env.dry_run
                 THEN /\ files = [p \in FilePaths |-> PreMergeFile(p)]
                      /\ printedYaml = {[path |-> p, content |-> ExpectedFile(p)] :
                                           p \in ResultFiles}
                 ELSE files = [p \in FilePaths |-> ExpectedFile(p)]

\* two results for one file, merged after the second node of the selection
\* ended before the first
C13_Witness ==
    /\ phase = "merged"
    /\ ~env.dry_run
    /\ nodes_to_process = <<IdA, IdB>>
    /\ completed = <<IdB, IdA>>
    /\ Len(SuccessfulResults) = 2
    /\ Cardinality(ResultPaths) = 1
    /\ Len(insertCalls) = 1

(***************************************************************************)
(* Properties of the column documentation of the run.                      *)
(***************************************************************************)
\* the declaration file p as the merge left it (in a dry run: as printed)
MergedFile(p) ==
    LET printed == {y \in printedYaml : y.path = p}
    IN IF env.dry_run /\ printed # {} THEN (CHOOSE y \in printed : TRUE).content
       ELSE files[p]

\* the column k of a node named nm was undocumented in the manifest and the
\* node's result has a summary for it
HasColumnSummary(nm, k) ==
    \E n \in NodeIds :
        /\ manifest[n].name = nm
        /\ results[n] # <<>>
        /\ k \in DOMAIN results[n][1].column_summaries
        /\ k \in DOMAIN manifest[n].columns
        /\ manifest[n].columns[k] = ""

\* C14: a column-level request is made only for a column whose description
\* in the manifest is the empty string, a result has column summaries for
\* exactly the undocumented columns of its node, and after the merge a
\* column entry differs from what the file held before only if the result
\* of its node has a summary for it: the entry of a column that the
\* manifest has a description for is as it was.
C14_ColumnDocsAdditive ==
    /\ \A r \in AllRequests :
           (r[2] # TBL /\ req[r] # "none") => manifest[r[1]].columns[r[2]] = ""
    /\ \A n \in NodeIds :
           results[n] # <<>>
               => DOMAIN results[n][1].column_summaries
                      = {k \in DOMAIN manifest[n].columns : manifest[n].columns[k] = ""}
    /\ phase = "merged"
           => \A p \in FilePaths :
                  LET old == PreMergeFile(p)
                      new == MergedFile(p)
                  IN /\ Len(new.models) = Len(old.models)
                     /\ \A i \in 1..Len(old.models) :
                            /\ Len(new.models[i].columns) = Len(old.models[i].columns)
                            /\ \A j \in 1..Len(old.models[i].columns) :
                                   \/ new.models[i].columns[j] = old.models[i].columns[j]
                                   \/ HasColumnSummary(old.models[i].name,
                                                       old.models[i].columns[j].name)

\* model.a merged into its declaration file: its undocumented column c1 now
\* refers to the generated doc, its documented column c2 was never asked
\* for and is as it was
C14_Witness ==
    /\ phase = "merged"
    /\ ~env.dry_run
    /\ results[IdA] # <<>>
    /\ manifest[IdA].patch_path = Patch1
    /\ req[<<IdA, "c1">>] # "none"
    /\ req[<<IdA, "c2">>] = "none"
    /\ \E i \in 1..Len(files[File1].models) :
           LET entry == files[File1].models[i]
           IN /\ entry.name = "a"
              /\ \E j \in 1..Len(entry.columns) :
                     /\ entry.columns[j].name = "c1"
                     /\ entry.columns[j].description = DocRef(ColumnDocName("a", "c1"))
              /\ \E j \in 1..Len(entry.columns) :
                     /\ entry.columns[j].name = "c2"
                     /\ entry.columns[j].description = "documented c2"

====
